---- MODULE Spec2Model ----
(***************************************************************************)
(* The queue-and-orchestration layer of the JobHunt pipeline: the named,   *)
(* expiring lock per ATS type, the score-ordered job queue with its dedup  *)
(* index, the orchestrator tick and the single-job subagent run.           *)
(* Time is counted in minutes and advances one orchestrator interval at a  *)
(* time.                                                                   *)
(***************************************************************************)
EXTENDS Integers, Sequences, FiniteSets, TLC

VARIABLES now, lock, granted, ok, store, dedup, prod, res, runs, nextRun,
          reverted

\* now: minutes since start; lock: per ATS type, holder and expiry;
\* store: job-queue records in queue order; dedup: outcome per key;
\* prod, res: position of each search run and what the last add returned;
\* runs, nextRun: the subagent runs spawned so far;
\* reverted: the keys whose abandoned claim the last tick reverted.
vars == <<now, lock, granted, ok, store, dedup, prod, res, runs, nextRun,
          reverted>>

lockVars == <<granted, ok>>
prodVars == <<prod, res>>
runVars == <<runs, nextRun, reverted>>

\* ------------------------------------------------------------------ bounds
MaxListings == 2

MaxQuery == 2

MaxName == 2

MaxFields == 2
MaxTicks == 7
MaxRuns == 2
LockMaxTicks == 3
LockCallers == 2
QueueMaxSearches == 1
SubmitKeys == 2

\* --------------------------------------------------------- program constants
TickInterval == 5

\* A lock that would expire before the subagent session times out.
LockTtlShort == 2 * TickInterval

LockTtl == 25
RunTimeout == 15
RunBudget == 9
SearchInterval == 30
StaleClaimTimeout == 30

\* ------------------------------------------------------------------- names
Partitions == {"ashby", "greenhouse"}
NoHolder == 0
Callers == 1..LockCallers
TtlChoices == {TickInterval, 2 * TickInterval}
Keys == {1, 2, 3}
Producers == {"search1", "search2"}
SubmitKeySet == 1..SubmitKeys
RunIds == 1..MaxRuns
PartitionOrder == <<"ashby", "greenhouse">>
NoRun == [pc |-> "none", part |-> "ashby", target |-> 0, start |-> 0]
EndedRun(pc) == [NoRun EXCEPT !.pc = pc]

\* ------------------------------------------------------------ Lock Manager
FreeLock == [holder |-> NoHolder, expiry |-> 0]

\* Faulty expiry tests: a lock that never expires, and one that is taken for
\* free one interval before its expiry.
isHeldIgnoringExpiry(l, t) == l.holder /= NoHolder

isHeldEarlyExpiry(l, t) == l.holder /= NoHolder /\ t + TickInterval < l.expiry

\* A lock that auto-expires: it is held while it names a holder whose expiry
\* has not passed.
isHeld(l, t) == l.holder /= NoHolder /\ t < l.expiry

\* Faulty compare-and-set: a refused caller is still written as the holder.
tryAcquireRefusedOverwrites(l, h, ttl, t) ==
    IF isHeld(l, t) THEN [ok |-> FALSE, lock |-> [l EXCEPT !.holder = h]]
    ELSE [ok |-> TRUE, lock |-> [holder |-> h, expiry |-> t + ttl]]

\* Compare-and-set against holder+expiry: what tryAcquire returns and the
\* lock as it leaves it.
tryAcquire(l, h, ttl, t) ==
    IF isHeld(l, t) THEN [ok |-> FALSE, lock |-> l]
    ELSE [ok |-> TRUE, lock |-> [holder |-> h, expiry |-> t + ttl]]

\* Release by anyone but the current holder changes nothing.
release(l, h) == IF l.holder = h THEN FreeLock ELSE l

\* Only the live current holder extends its expiry.
\* A renew that asks only who the lock names, not whether its expiry passed.
renewAfterExpiry(l, h, ttl, t) ==
    IF l.holder = h
    THEN [ok |-> TRUE, lock |-> [l EXCEPT !.expiry = t + ttl]]
    ELSE [ok |-> FALSE, lock |-> l]

renew(l, h, ttl, t) ==
    IF l.holder = h /\ isHeld(l, t)
    THEN [ok |-> TRUE, lock |-> [l EXCEPT !.expiry = t + ttl]]
    ELSE [ok |-> FALSE, lock |-> l]

\* --------------------------------------------------- lock callers (SpecLock)
\* granted[n][h] is the expiry caller h was last granted on lock n (0: none);
\* ok is what the last call returned.
LockTryAcquire(n, h, ttl) ==
    LET r == tryAcquire(lock[n], h, ttl, now)
    IN /\ lock' = [lock EXCEPT ![n] = r.lock]
       /\ ok' = r.ok
       /\ granted' = IF r.ok THEN [granted EXCEPT ![n][h] = r.lock.expiry] ELSE granted
       /\ UNCHANGED <<now, store, dedup, prod, res, runVars>>

LockRelease(n, h) ==
    /\ lock' = [lock EXCEPT ![n] = release(lock[n], h)]
    /\ ok' = TRUE
    /\ granted' = [granted EXCEPT ![n][h] = 0]
    /\ UNCHANGED <<now, store, dedup, prod, res, runVars>>

LockRenew(n, h, ttl) ==
    LET r == renew(lock[n], h, ttl, now)
    IN /\ lock' = [lock EXCEPT ![n] = r.lock]
       /\ ok' = r.ok
       /\ granted' = IF r.ok THEN [granted EXCEPT ![n][h] = r.lock.expiry] ELSE granted
       /\ UNCHANGED <<now, store, dedup, prod, res, runVars>>

LockAdvance ==
    /\ now < LockMaxTicks * TickInterval
    /\ now' = now + TickInterval
    /\ UNCHANGED <<lock, granted, ok, store, dedup, prod, res, runVars>>

InitLock ==
    /\ now = 0
    /\ lock = [n \in Partitions |-> FreeLock]
    /\ granted = [n \in Partitions |-> [h \in Callers |-> 0]]
    /\ ok = FALSE
    /\ store = <<>>
    /\ dedup = [k \in Keys |-> "none"]
    /\ prod = [p \in Producers |-> [pc |-> "idle", key |-> 0, seen |-> "NEW"]]
    /\ res = "none"
    /\ runs = [r \in RunIds |-> NoRun]
    /\ nextRun = 1
    /\ reverted = {}

NextLock ==
    \/ \E n \in Partitions, h \in Callers, ttl \in TtlChoices : LockTryAcquire(n, h, ttl)
    \/ \E n \in Partitions, h \in Callers : LockRelease(n, h)
    \/ \E n \in Partitions, h \in Callers, ttl \in TtlChoices : LockRenew(n, h, ttl)
    \/ LockAdvance

SpecLock == InitLock /\ [][NextLock]_vars

\* ------------------------------------------ subagent-lock.py (SpecUnlock)
\* The lock script as it is called: unlock takes the lock name only, and
\* whoever runs it clears the lock.
unlock(l) == FreeLock

LockUnlock(n, h) ==
    /\ lock' = [lock EXCEPT ![n] = unlock(lock[n])]
    /\ ok' = TRUE
    /\ granted' = [granted EXCEPT ![n][h] = 0]
    /\ UNCHANGED <<now, store, dedup, prod, res, runVars>>

NextUnlock ==
    \/ \E n \in Partitions, h \in Callers, ttl \in TtlChoices : LockTryAcquire(n, h, ttl)
    \/ \E n \in Partitions, h \in Callers : LockUnlock(n, h)
    \/ LockAdvance

SpecUnlock == InitLock /\ [][NextUnlock]_vars

\* C13 (Release by a non-holder): an unlock by a caller that is not the
\* current holder leaves the lock's holder and expiry unchanged.
C13_LateReleaseNoOp ==
    [][\A n \in Partitions, h \in Callers :
          LockUnlock(n, h) /\ lock[n].holder /= h => lock'[n] = lock[n]]_vars

\* The callers that were granted the lock, have not released it, and whose
\* granted expiry has not passed.
LiveHolders(n) == {h \in Callers : granted[n][h] > now}

ExpiredFor(n, h) == lock[n].holder \notin {NoHolder, h} /\ lock[n].expiry <= now

\* C9 (Lock expiry recovery): when a holder has not released and the lock's
\* TTL has elapsed, a tryAcquire by a different caller succeeds and makes
\* that caller the holder; the model has no force-expire or manual unlock.
C9_ExpiryRecovery ==
    \A n \in Partitions, h \in Callers, ttl \in TtlChoices :
        ExpiredFor(n, h) =>
            tryAcquire(lock[n], h, ttl, now)
                = [ok |-> TRUE, lock |-> [holder |-> h, expiry |-> now + ttl]]

\* A caller holds a lock whose earlier holder never released and expired.
C9_Witness ==
    \E n \in Partitions, h1, h2 \in Callers :
        /\ h1 /= h2
        /\ ok
        /\ lock[n].holder = h2 /\ granted[n][h2] = lock[n].expiry
        /\ granted[n][h1] \in 1..now

\* ------------------------------------------------------------ Posting Store
\* The queue is one list of posting records kept sorted by priority.
RecencyToday == 100
CompanySeriesB == 80
MatchStrong == 80
SalaryBuckets == {0, 80, 100}

PartOf(k) == IF k = 1 THEN "ashby" ELSE "greenhouse"

\* Score = Recency + Salary + Company + Match, fixed at insertion.
scoreOf(c) == RecencyToday + c.salary + CompanySeriesB + MatchStrong

Candidates == [key : Keys, salary : SalaryBuckets]

\* The salary bucket the pipeline's search run finds for each posting.
salaryOf(k) == IF k % 2 = 1 THEN 100 ELSE 80

Posting(c, t) ==
    [key |-> c.key, part |-> PartOf(c.key), score |-> scoreOf(c), ts |-> t,
     state |-> "PENDING", owner |-> 0, claimedAt |-> 0, evidence |-> FALSE]

\* Priority order: higher score first, then older discovery, then identity.
Before(a, b) ==
    \/ a.score > b.score
    \/ a.score = b.score /\ a.ts < b.ts
    \/ a.score = b.score /\ a.ts = b.ts /\ a.key < b.key

RECURSIVE sortQueue(_)
sortQueue(q) ==
    IF q = <<>> THEN <<>>
    ELSE LET r == Head(q)
             rest == sortQueue(Tail(q))
         IN SelectSeq(rest, LAMBDA x : Before(x, r)) \o <<r>>
            \o SelectSeq(rest, LAMBDA x : ~Before(x, r))

Has(q, k) == \E i \in 1..Len(q) : q[i].key = k

get(q, k) == SelectSeq(q, LAMBDA x : x.key = k)

addToQueueUnsorted(q, r) == Append(q, r)

\* add-to-queue: add the job, then sort the queue by score.
addToQueue(q, r) == sortQueue(Append(q, r))

upsertNoIdentityCheck(q, r) == [ok |-> TRUE, store |-> addToQueue(q, r)]

\* The identity constraint: a key already in the Store is left as it is.
upsert(q, r) ==
    IF Has(q, r.key) THEN [ok |-> FALSE, store |-> q]
    ELSE [ok |-> TRUE, store |-> addToQueue(q, r)]

Take(q, n) == SubSeq(q, 1, IF n < Len(q) THEN n ELSE Len(q))

\* Faulty listing: the PENDING postings of every ATS type.
listActionableAnyPartition(q, part, limit) ==
    Take(SelectSeq(q, LAMBDA x : x.state = "PENDING"), limit)

\* Faulty listing: the last postings of the partition instead of the first.
listActionableFromTail(q, part, limit) ==
    LET L == SelectSeq(q, LAMBDA x : x.state = "PENDING" /\ x.part = part)
    IN SubSeq(L, IF limit < Len(L) THEN Len(L) - limit + 1 ELSE 1, Len(L))

\* Faulty listing: the postings of the partition whatever their state.
listActionableAnyState(q, part, limit) ==
    Take(SelectSeq(q, LAMBDA x : x.part = part), limit)

\* queue-summary --actionable --ats <part> --top <limit>
listActionable(q, part, limit) ==
    Take(SelectSeq(q, LAMBDA x : x.state = "PENDING" /\ x.part = part), limit)

\* Faulty transition: the record is moved whatever state it is in.
transitionNoStateCheck(q, k, fromState, toState, actor, t) ==
    IF \E i \in 1..Len(q) : q[i].key = k
    THEN [ok |-> TRUE,
          store |-> [i \in 1..Len(q) |->
             IF q[i].key = k
             THEN [q[i] EXCEPT !.state = toState,
                               !.owner = IF toState = "CLAIMED" THEN actor ELSE 0,
                               !.claimedAt = IF toState = "CLAIMED" THEN t ELSE 0]
             ELSE q[i]]]
    ELSE [ok |-> FALSE, store |-> q]

\* Optimistic concurrency: the record changes only from fromState.
transition(q, k, fromState, toState, actor, t) ==
    IF \E i \in 1..Len(q) : q[i].key = k /\ q[i].state = fromState
    THEN [ok |-> TRUE,
          store |-> [i \in 1..Len(q) |->
             IF q[i].key = k /\ q[i].state = fromState
             THEN [q[i] EXCEPT !.state = toState,
                               !.owner = IF toState = "CLAIMED" THEN actor ELSE 0,
                               !.claimedAt = IF toState = "CLAIMED" THEN t ELSE 0]
             ELSE q[i]]]
    ELSE [ok |-> FALSE, store |-> q]

\* remove-from-queue: the record leaves the Store.
removeFromQueue(q, k) == SelectSeq(q, LAMBDA x : x.key /= k)

\* -------------------------------------------------------------- Dedup Index
\* check-dedup: NEW, or DUPLICATE for a key with any recorded outcome.
lookupIgnoringSkipped(d, k) == IF d[k] \in {"none", "skipped"} THEN "NEW" ELSE "SEEN"

lookup(d, k) == IF d[k] = "none" THEN "NEW" ELSE "SEEN"

record(d, k, outcome) == [d EXCEPT ![k] = outcome]

\* ---------------------------------------------------- Producer (SpecSubmit)
\* submit is check-dedup, then score, then add-to-queue; two search runs may
\* interleave between the steps. res is what the last submit returned.
ProdIdle(p) == [prod EXCEPT ![p] = [pc |-> "idle", key |-> 0, seen |-> "NEW"]]

CheckDedup(p, k) ==
    /\ prod[p].pc = "idle"
    /\ prod' = [prod EXCEPT ![p] = [pc |-> "checked", key |-> k, seen |-> lookup(dedup, k)]]
    /\ UNCHANGED <<now, lock, granted, ok, store, dedup, res, runVars>>

AddToQueue(p, salary) ==
    /\ prod[p].pc = "checked"
    /\ prod' = ProdIdle(p)
    /\ LET c == [key |-> prod[p].key, salary |-> salary]
           u == upsert(store, Posting(c, now))
       IN IF prod[p].seen /= "NEW"
          THEN res' = "DUPLICATE" /\ UNCHANGED <<store, dedup>>
          ELSE IF salary = 0
          THEN res' = "REJECTED" /\ UNCHANGED <<store, dedup>>
          ELSE IF u.ok
          THEN /\ store' = u.store
               /\ dedup' = record(dedup, c.key, "pending")
               /\ res' = "INSERTED"
          ELSE res' = "DUPLICATE" /\ UNCHANGED <<store, dedup>>
    /\ UNCHANGED <<now, lock, granted, ok, runVars>>

\* The Store's other callers, as the orchestrator and a subagent call it.
StoreClaim(k, a) ==
    LET r == transition(store, k, "PENDING", "CLAIMED", a, now)
    IN /\ r.ok
       /\ store' = r.store
       /\ UNCHANGED <<now, lock, granted, ok, dedup, prod, res, runVars>>

StoreApplied(k, a) ==
    LET r == transition(store, k, "CLAIMED", "APPLIED", a, now)
    IN /\ r.ok
       /\ store' = [i \in 1..Len(r.store) |->
                      IF r.store[i].key = k /\ r.store[i].state = "APPLIED"
                      THEN [r.store[i] EXCEPT !.evidence = TRUE] ELSE r.store[i]]
       /\ dedup' = record(dedup, k, "applied")
       /\ UNCHANGED <<now, lock, granted, ok, prod, res, runVars>>

StoreSkipped(k, a) ==
    LET r == transition(store, k, "CLAIMED", "SKIPPED", a, now)
    IN /\ r.ok
       /\ store' = r.store
       /\ dedup' = record(dedup, k, "skipped")
       /\ UNCHANGED <<now, lock, granted, ok, prod, res, runVars>>

StoreDead(k) ==
    /\ \E i \in 1..Len(store) : store[i].key = k /\ store[i].state = "CLAIMED"
    /\ store' = removeFromQueue(store, k)
    /\ dedup' = record(dedup, k, "none")
    /\ UNCHANGED <<now, lock, granted, ok, prod, res, runVars>>

StoreDeferred(k, a) ==
    LET r == transition(store, k, "CLAIMED", "PENDING", a, now)
    IN /\ r.ok
       /\ store' = r.store
       /\ UNCHANGED <<now, lock, granted, ok, dedup, prod, res, runVars>>

NextSubmit ==
    \/ \E p \in Producers, k \in SubmitKeySet : CheckDedup(p, k)
    \/ \E p \in Producers, salary \in SalaryBuckets : AddToQueue(p, salary)
    \/ \E k \in SubmitKeySet : StoreClaim(k, 1)
    \/ \E k \in SubmitKeySet : StoreApplied(k, 1)
    \/ \E k \in SubmitKeySet : StoreSkipped(k, 1)
    \/ \E k \in SubmitKeySet : StoreDead(k)
    \/ \E k \in SubmitKeySet : StoreDeferred(k, 1)

SpecSubmit == InitLock /\ [][NextSubmit]_vars

CountOf(q, k) == Cardinality({i \in 1..Len(q) : q[i].key = k})

\* C3 (Uniqueness): under every interleaving of the producers' dedup checks
\* and inserts, a key never has more than one record in the Store, and a key
\* the dedup index knows has exactly one.
C3_Uniqueness ==
    \A k \in Keys :
        /\ CountOf(store, k) <= 1
        /\ dedup[k] /= "none" => CountOf(store, k) = 1

\* A producer passed the dedup check with NEW and the key was inserted by
\* the other producer before its own insert.
C3_Witness ==
    \E p \in Producers :
        /\ prod[p].pc = "checked"
        /\ prod[p].seen = "NEW"
        /\ CountOf(store, prod[p].key) = 1

\* ------------------------------------------------- Search Agent (pipeline)
\* One search run at a time: check-dedup, score, add-to-queue.
\* Faulty submit: a duplicate refreshes the score and discovery time of the
\* record it found.
submitRefreshesDuplicate(q, d, c, t) ==
    LET u == upsert(q, Posting(c, t))
    IN IF lookup(d, c.key) /= "NEW"
       THEN [res |-> "DUPLICATE",
             store |-> [i \in 1..Len(q) |->
                          IF q[i].key = c.key
                          THEN [q[i] EXCEPT !.score = scoreOf(c), !.ts = t] ELSE q[i]],
             dedup |-> d]
       ELSE IF c.salary = 0 THEN [res |-> "REJECTED", store |-> q, dedup |-> d]
       ELSE IF u.ok
       THEN [res |-> "INSERTED", store |-> u.store, dedup |-> record(d, c.key, "pending")]
       ELSE [res |-> "DUPLICATE", store |-> q, dedup |-> d]

submit(q, d, c, t) ==
    LET u == upsert(q, Posting(c, t))
    IN IF lookup(d, c.key) /= "NEW" THEN [res |-> "DUPLICATE", store |-> q, dedup |-> d]
       ELSE IF c.salary = 0 THEN [res |-> "REJECTED", store |-> q, dedup |-> d]
       ELSE IF u.ok
       THEN [res |-> "INSERTED", store |-> u.store, dedup |-> record(d, c.key, "pending")]
       ELSE [res |-> "DUPLICATE", store |-> q, dedup |-> d]

Submit(k, salary) ==
    /\ now % SearchInterval = 0
    /\ LET s == submit(store, dedup, [key |-> k, salary |-> salary], now)
       IN res' = s.res /\ store' = s.store /\ dedup' = s.dedup
    /\ UNCHANGED <<now, lock, lockVars, prod, runVars>>

\* ------------------------------------------------------ Queue (SpecQueue)
\* The Store and the Dedup Index under every order of calls: search runs
\* submit, and postings are claimed, applied, skipped, removed as dead or
\* deferred.
QueueAdvance ==
    /\ now < QueueMaxSearches * SearchInterval
    /\ now' = now + SearchInterval
    /\ UNCHANGED <<lock, lockVars, store, dedup, prodVars, runVars>>

NextQueue ==
    \/ \E k \in Keys, salary \in SalaryBuckets : Submit(k, salary)
    \/ \E k \in Keys : StoreClaim(k, 1)
    \/ \E k \in Keys : StoreApplied(k, 1)
    \/ \E k \in Keys : StoreSkipped(k, 1)
    \/ \E k \in Keys : StoreDead(k)
    \/ \E k \in Keys : StoreDeferred(k, 1)
    \/ QueueAdvance

SpecQueue == InitLock /\ [][NextQueue]_vars

Terminal(k) == dedup[k] \in {"applied", "skipped"}

Queued(q, k) == \E i \in 1..Len(q) : q[i].key = k /\ q[i].state \in {"PENDING", "CLAIMED"}

Discarded(k) ==
    \A salary \in SalaryBuckets :
        submit(store, dedup, [key |-> k, salary |-> salary], now)
            = [res |-> "DUPLICATE", store |-> store, dedup |-> dedup]

C4_Stop ==
    \A k \in Keys :
        Terminal(k) => lookup(dedup, k) = "SEEN" /\ Discarded(k) /\ ~Queued(store, k)

C4_Stays == \A k \in Keys : Terminal(k) => dedup'[k] = dedup[k]

Precedes(a, b) ==
    \/ a.score > b.score
    \/ a.score = b.score /\ a.ts < b.ts
    \/ a.score = b.score /\ a.ts = b.ts /\ a.key < b.key

Actionable(P) == {i \in 1..Len(store) : store[i].state = "PENDING" /\ store[i].part = P}

Min(a, b) == IF a < b THEN a ELSE b

C8_ListActionable ==
    \A P \in Partitions, limit \in 0..(Len(store) + 1) :
        LET L == listActionable(store, P, limit)
        IN /\ Len(L) = Min(limit, Cardinality(Actionable(P)))
           /\ \A i \in 1..Len(L) : L[i].state = "PENDING" /\ L[i].part = P
           /\ \A i, j \in 1..Len(L) : i < j => Precedes(L[i], L[j])
           /\ \A i \in 1..Len(L) : \E j \in Actionable(P) : store[j] = L[i]
           /\ \A j \in Actionable(P) :
                 \/ \E i \in 1..Len(L) : L[i] = store[j]
                 \/ \A i \in 1..Len(L) : Precedes(L[i], store[j])

\* Two PENDING postings of one partition where the later insert ranks first,
\* next to a PENDING posting of the other partition.
C8_Witness ==
    \E i, j, n \in 1..Len(store) :
        /\ i < j
        /\ store[i].part = store[j].part
        /\ store[i].state = "PENDING" /\ store[j].state = "PENDING"
        /\ store[i].ts > store[j].ts
        /\ store[n].part /= store[i].part /\ store[n].state = "PENDING"

\* ------------------------------------------------ Application Orchestrator
Live(r) == r.pc \in {"preflight", "submitting"}

\* Faulty cleanup: a dead link is removed whatever the state of its posting.
batchPreflightAnyState(q, d, deadKeys) ==
    [store |-> SelectSeq(q, LAMBDA x : x.key \notin deadKeys),
     dedup |-> [k \in Keys |->
                  IF k \in deadKeys /\ (\E i \in 1..Len(q) : q[i].key = k)
                  THEN "none" ELSE d[k]]]

\* batch-preflight --all --remove: the queued links found dead leave the queue.
batchPreflight(q, d, deadKeys) ==
    [store |-> SelectSeq(q, LAMBDA x : ~(x.state = "PENDING" /\ x.key \in deadKeys)),
     dedup |-> [k \in Keys |->
                  IF k \in deadKeys /\ (\E i \in 1..Len(q) : q[i].key = k /\ q[i].state = "PENDING")
                  THEN "none" ELSE d[k]]]

\* Faulty staleness test: any old record that is not PENDING counts as an
\* abandoned claim.
isStaleAnyState(x, t) == x.state /= "PENDING" /\ t - x.claimedAt > StaleClaimTimeout

isStale(x, t) == x.state = "CLAIMED" /\ t - x.claimedAt > StaleClaimTimeout

staleKeys(q, t) == {q[i].key : i \in {j \in 1..Len(q) : isStale(q[j], t)}}

revertNothing(q, t) == q

\* A claim older than the liveness timeout is abandoned: back to PENDING.
revertStale(q, t) ==
    [i \in 1..Len(q) |->
        IF isStale(q[i], t)
        THEN [q[i] EXCEPT !.state = "PENDING", !.owner = 0, !.claimedAt = 0]
        ELSE q[i]]

\* The subagent starts: it takes the lock of its ATS type and is bound to
\* the top actionable job of that type.
spawn(st, P, t) ==
    LET r == st.nextRun
        a == tryAcquire(st.lock[P], r, LockTtl, t)
        top == listActionable(st.store, P, 1)
    IN IF r > MaxRuns \/ ~a.ok \/ top = <<>> THEN st
       ELSE LET c == transition(st.store, top[1].key, "PENDING", "CLAIMED", r, t)
            IN [lock |-> [st.lock EXCEPT ![P] = a.lock],
                store |-> c.store,
                runs |-> [st.runs EXCEPT ![r] =
                            [pc |-> "preflight", part |-> P, target |-> top[1].key,
                             start |-> t]],
                nextRun |-> r + 1]

\* For one ATS type: skip if its lock is held, skip if it has no actionable
\* job, else spawn its subagent.
activate(st, P, t) ==
    IF isHeld(st.lock[P], t) THEN st
    ELSE IF listActionable(st.store, P, 1) = <<>> THEN st
    ELSE spawn(st, P, t)

RECURSIVE forFirstReadyPartition(_, _, _)
forFirstReadyPartition(st, order, t) ==
    IF order = <<>> THEN st
    ELSE LET next == activate(st, Head(order), t)
         IN IF next.nextRun > st.nextRun THEN next
            ELSE forFirstReadyPartition(next, Tail(order), t)

RECURSIVE forEachPartition(_, _, _)
forEachPartition(st, order, t) ==
    IF order = <<>> THEN st
    ELSE forEachPartition(activate(st, Head(order), t), Tail(order), t)

QueuedKeys == {store[i].key : i \in 1..Len(store)}

\* What one cleanup pass finds: no dead link, or one, in whatever state its
\* posting is.
DeadLinks == {{}} \cup {{k} : k \in QueuedKeys}

Tick(deadKeys) ==
    /\ UNCHANGED <<now, lockVars, prodVars>>
    /\ LET cleaned == batchPreflight(store, dedup, deadKeys)
           st == forEachPartition(
                    [lock |-> lock, store |-> revertStale(cleaned.store, now),
                     runs |-> runs, nextRun |-> nextRun], PartitionOrder, now)
       IN /\ dedup' = cleaned.dedup
          /\ reverted' = staleKeys(cleaned.store, now)
          /\ nextRun' = st.nextRun
          /\ runs' = st.runs
          /\ lock' = st.lock
          /\ store' = st.store

\* A tick that cannot reach the queue file does nothing; one that cannot
\* reach the lock has cleaned the dead links and stops there.
Unreachable == {"queue", "lock"}

\* Faulty abort: with the lock out of reach the tick dispatches anyway.
TickAbortUnsafeDefault(deadKeys, down) ==
    LET cleaned == IF down = "queue" THEN [store |-> store, dedup |-> dedup]
                   ELSE batchPreflight(store, dedup, deadKeys)
        top == listActionable(cleaned.store, PartitionOrder[1], 1)
    IN /\ down = "queue" => deadKeys = {}
       /\ dedup' = cleaned.dedup
       /\ IF down = "lock" /\ nextRun <= MaxRuns /\ top /= <<>>
          THEN /\ store' = transition(cleaned.store, top[1].key, "PENDING", "CLAIMED",
                                      nextRun, now).store
               /\ runs' = [runs EXCEPT ![nextRun] =
                             [pc |-> "preflight", part |-> PartitionOrder[1],
                              target |-> top[1].key, start |-> now]]
               /\ nextRun' = nextRun + 1
          ELSE store' = cleaned.store /\ UNCHANGED <<runs, nextRun>>
       /\ UNCHANGED <<now, lock, lockVars, prodVars, reverted>>

TickAbort(deadKeys, down) ==
    LET cleaned == IF down = "queue" THEN [store |-> store, dedup |-> dedup]
                   ELSE batchPreflight(store, dedup, deadKeys)
    IN /\ down = "queue" => deadKeys = {}
       /\ dedup' = cleaned.dedup
       /\ store' = cleaned.store
       /\ UNCHANGED <<now, lock, lockVars, prodVars, runs, nextRun, reverted>>

\* ------------------------------------------------------------ ATS Subagent
hasBudget(P) == P = "greenhouse"

OverBudget(r) == hasBudget(runs[r].part) /\ now - runs[r].start >= RunBudget

\* The terminal outcome a submission result leads to.
terminalOfOptimistic(result) ==
    IF result \in {"SUBMITTED", "AMBIGUOUS"} THEN "APPLIED"
    ELSE IF result = "CAPTCHA" THEN "SKIPPED" ELSE "DEFERRED"

\* Faulty outcome table: an infrastructure error skips the job.
terminalOfInfraSkips(result) ==
    IF result = "SUBMITTED" THEN "APPLIED"
    ELSE IF result \in {"CAPTCHA", "INFRA"} THEN "SKIPPED"
    ELSE "DEFERRED"

terminalOf(result) ==
    IF result = "SUBMITTED" THEN "APPLIED"
    ELSE IF result = "CAPTCHA" THEN "SKIPPED"
    ELSE "DEFERRED"

SubmitResults == {"SUBMITTED", "BLOCKED", "AMBIGUOUS", "CAPTCHA", "INFRA"}

\* mark-applied: queue and dedup index together.
markApplied(q, d, k, actor, t, confirmed) ==
    LET r == transition(q, k, "CLAIMED", "APPLIED", actor, t)
    IN [store |-> [i \in 1..Len(r.store) |->
                     IF r.ok /\ r.store[i].key = k /\ r.store[i].state = "APPLIED"
                     THEN [r.store[i] EXCEPT !.evidence = confirmed]
                     ELSE r.store[i]],
        dedup |-> IF r.ok THEN record(d, k, "applied") ELSE d]

\* A run that stops without unlocking.
EndRunKeepLock(r) ==
    /\ runs' = [runs EXCEPT ![r] = EndedRun("done")]
    /\ lock' = lock

EndRun(r) ==
    /\ runs' = [runs EXCEPT ![r] = EndedRun("done")]
    /\ lock' = [lock EXCEPT ![runs[r].part] = release(@, r)]

\* Phase 0: a DEAD link is removed from the queue and the run stops SKIPPED.
Preflight(r, alive) ==
    /\ runs[r].pc = "preflight"
    /\ ~OverBudget(r)
    /\ IF alive
       THEN /\ runs' = [runs EXCEPT ![r].pc = "submitting"]
            /\ UNCHANGED <<lock, store, dedup>>
       ELSE /\ store' = removeFromQueue(store, runs[r].target)
            /\ dedup' = record(dedup, runs[r].target, "none")
            /\ EndRun(r)
    /\ UNCHANGED <<now, lockVars, prodVars, nextRun, reverted>>

\* The greenhouse skill under workspace/skills: a DEAD link is removed and the
\* run picks the next job of its queue.
picksNextJob(P) == P = "greenhouse"

PickNextJob(r) ==
    /\ runs[r].pc = "preflight"
    /\ picksNextJob(runs[r].part)
    /\ ~OverBudget(r)
    /\ LET q == removeFromQueue(store, runs[r].target)
           top == listActionable(q, runs[r].part, 1)
       IN /\ top /= <<>>
          /\ store' = transition(q, top[1].key, "PENDING", "CLAIMED", r, now).store
          /\ runs' = [runs EXCEPT ![r].target = top[1].key]
    /\ dedup' = record(dedup, runs[r].target, "none")
    /\ UNCHANGED <<now, lock, lockVars, prodVars, nextRun, reverted>>

\* The submission phases end in a result; the run writes its terminal
\* outcome and unlocks.
Finish(r, result) ==
    /\ runs[r].pc = "submitting"
    /\ ~OverBudget(r)
    /\ LET k == runs[r].target
           out == terminalOf(result)
       IN /\ IF out = "APPLIED"
             THEN LET m == markApplied(store, dedup, k, r, now, result = "SUBMITTED")
                  IN store' = m.store /\ dedup' = m.dedup
             ELSE IF out = "SKIPPED"
             THEN /\ store' = transition(store, k, "CLAIMED", "SKIPPED", r, now).store
                  /\ dedup' = record(dedup, k, "skipped")
             ELSE /\ store' = transition(store, k, "CLAIMED", "PENDING", r, now).store
                  /\ UNCHANGED dedup
          /\ EndRun(r)
    /\ UNCHANGED <<now, lockVars, prodVars, nextRun, reverted>>

\* No terminal outcome within the runtime budget: DEFERRED, and stop.
BudgetStop(r) ==
    /\ Live(runs[r])
    /\ OverBudget(r)
    /\ store' = transition(store, runs[r].target, "CLAIMED", "PENDING", r, now).store
    /\ EndRun(r)
    /\ UNCHANGED <<now, lockVars, dedup, prodVars, nextRun, reverted>>

\* The subagent dies without unlocking.
Crash(r) ==
    /\ Live(runs[r])
    /\ runs' = [runs EXCEPT ![r] = EndedRun("dead")]
    /\ UNCHANGED <<now, lock, lockVars, store, dedup, prodVars, nextRun, reverted>>

\* Time passes; a subagent session that reaches its timeout is ended. A run
\* at the end of its runtime budget stops before more time passes.
Advance ==
    /\ now < MaxTicks * TickInterval
    /\ \A r \in RunIds : ~(Live(runs[r]) /\ OverBudget(r))
    /\ now' = now + TickInterval
    /\ runs' = [r \in RunIds |->
                  IF Live(runs[r]) /\ now' - runs[r].start >= RunTimeout
                  THEN EndedRun("dead")
                  ELSE runs[r]]
    /\ UNCHANGED <<lock, lockVars, store, dedup, prodVars, nextRun, reverted>>

Init == InitLock

Next ==
    \/ \E k \in Keys : Submit(k, salaryOf(k))
    \/ \E deadKeys \in DeadLinks : Tick(deadKeys)
    \/ \E deadKeys \in DeadLinks, down \in Unreachable : TickAbort(deadKeys, down)
    \/ \E r \in RunIds, alive \in BOOLEAN : Preflight(r, alive)
    \/ \E r \in RunIds : PickNextJob(r)
    \/ \E r \in RunIds, result \in SubmitResults : Finish(r, result)
    \/ \E r \in RunIds : BudgetStop(r)
    \/ \E r \in RunIds : Crash(r)
    \/ Advance

Spec == Init /\ [][Next]_vars

\* ------------------------------------------------------ Pipeline properties
C2_AppliedHasEvidence ==
    \A i \in 1..Len(store) : store[i].state = "APPLIED" => store[i].evidence

C2_NoAppliedStep ==
    \A r \in RunIds :
        (\/ \E result \in {"AMBIGUOUS", "BLOCKED"} : Finish(r, result)
         \/ BudgetStop(r))
        => \A i \in 1..Len(store') :
              store'[i].key = runs[r].target => store'[i].state /= "APPLIED"

\* C2 (No false success): every APPLIED posting carries the evidence of a
\* confirmed submission, and a run that ends AMBIGUOUS or BLOCKED, or that
\* its run budget stops, does not leave its posting APPLIED.
C2_NoFalseSuccess == []C2_AppliedHasEvidence /\ [][C2_NoAppliedStep]_vars

\* A run has confirmed its submission and its posting is APPLIED.
C2_Witness ==
    \E i \in 1..Len(store), r \in RunIds :
        /\ store[i].state = "APPLIED" /\ store[i].evidence
        /\ store[i].owner = 0
        /\ runs[r].pc = "done"
        /\ dedup[store[i].key] = "applied"

LiveRuns(P) == {r \in RunIds : Live(runs[r]) /\ runs[r].part = P}

\* C5 (One live worker per partition): no partition ever has two runs
\* executing at once, however long a run takes.
C5_OneLiveWorker == \A P \in Partitions : Cardinality(LiveRuns(P)) <= 1

\* A run is still executing two ticks after its start while its partition
\* has another actionable posting.
C5_Witness ==
    \E r \in RunIds, i \in 1..Len(store) :
        /\ Live(runs[r])
        /\ now - runs[r].start >= 2 * TickInterval
        /\ store[i].part = runs[r].part /\ store[i].state = "PENDING"
        /\ lock[runs[r].part].holder = r

AbandonedAt(x, t) == x.state = "CLAIMED" /\ t - x.claimedAt > StaleClaimTimeout

Abandoned(x) == AbandonedAt(x, now)

ReadyNow(P) ==
    /\ lock[P].holder = NoHolder \/ lock[P].expiry <= now
    /\ \E i \in 1..Len(store) :
          store[i].part = P /\ (store[i].state = "PENDING" \/ Abandoned(store[i]))

NewRuns == {r \in RunIds : nextRun <= r /\ r < nextRun'}

TickStep ==
    /\ now' = now /\ res' = res
    /\ runs' = runs \/ nextRun' > nextRun
    /\ Len(store') <= Len(store)
    /\ \E deadKeys \in DeadLinks : Tick(deadKeys)

IndexOf(P) == CHOOSE i \in 1..Len(PartitionOrder) : PartitionOrder[i] = P

RecordOf(q, k) == q[CHOOSE i \in 1..Len(q) : q[i].key = k]

TopOfRun(r) ==
    LET P == runs'[r].part
        top == RecordOf(store', runs'[r].target)
    IN /\ top.state = "CLAIMED" /\ top.owner = r /\ top.part = P
       /\ \A i \in 1..Len(store') :
             store'[i].part = P /\ store'[i].state = "PENDING"
                 => Precedes(top, store'[i])

ReadyIn(q, P) ==
    /\ lock[P].holder = NoHolder \/ lock[P].expiry <= now
    /\ listActionable(q, P, 1) /= <<>>

TopScore(q, P) == listActionable(q, P, 1)[1].score

Best(q) ==
    CHOOSE P \in Partitions :
        /\ ReadyIn(q, P)
        /\ \A P2 \in Partitions :
              ReadyIn(q, P2) /\ P2 /= P =>
                  \/ TopScore(q, P) > TopScore(q, P2)
                  \/ TopScore(q, P) = TopScore(q, P2) /\ IndexOf(P) < IndexOf(P2)

C11_ReleaseStep ==
    \A r \in RunIds :
        Live(runs[r]) /\ runs'[r].pc = "done" => lock'[runs[r].part] = FreeLock

C11_HolderNotDone ==
    \A P \in Partitions :
        lock[P].holder /= NoHolder
            => runs[lock[P].holder].pc \in {"preflight", "submitting", "dead"}

C12_TargetImmutable ==
    [][\A r \in RunIds :
          Live(runs[r]) /\ Live(runs'[r]) => runs'[r].target = runs[r].target]_vars

\* ------------------------------------------------------ tryAcquire (SpecLock)
\* The lock is free for the taking: it names no holder, or its holder's
\* expiry has passed.
Available(n) == lock[n].holder = NoHolder \/ lock[n].expiry <= now

\* C14 (tryAcquire): in every reachable state of the locks, a tryAcquire by
\* any caller returns true exactly when the lock has no holder or its
\* holder's expiry has passed, and then the lock names the caller with an
\* expiry ttl after the time of the call; otherwise it returns false and the
\* lock is left as it was.
C14_TryAcquireExact ==
    \A n \in Partitions, h \in Callers, ttl \in TtlChoices :
        LET r == tryAcquire(lock[n], h, ttl, now)
        IN /\ r.ok = Available(n)
           /\ Available(n) => r.lock = [holder |-> h, expiry |-> now + ttl]
           /\ ~Available(n) => r.lock = lock[n]

\* A refused tryAcquire on a lock that was taken over after its first
\* holder's grant ran out.
C14_Witness ==
    \E n \in Partitions, h1, h2 \in Callers :
        /\ h1 /= h2
        /\ ~ok
        /\ lock[n].holder = h2 /\ lock[n].expiry > now
        /\ granted[n][h1] > 0 /\ granted[n][h1] <= now

\* ----------------------------------------------------------- renew (SpecLock)
\* The caller is the lock's current holder and its expiry has not passed.
HoldsLive(n, h) == lock[n].holder = h /\ h /= NoHolder /\ now < lock[n].expiry

\* C28 (renew): in every reachable state of the locks, a renew by any caller
\* returns true exactly when the caller is the current holder and the expiry
\* has not passed, and then only the expiry moves, to ttl after the call; a
\* renew by anyone else, or by the holder after its expiry, returns false and
\* leaves the lock as it was, so that a renew never changes who holds a lock.
C28_RenewExact ==
    \A n \in Partitions, h \in Callers, ttl \in TtlChoices :
        LET r == renew(lock[n], h, ttl, now)
        IN /\ r.ok = HoldsLive(n, h)
           /\ r.lock.holder = lock[n].holder
           /\ r.lock.expiry = IF HoldsLive(n, h) THEN now + ttl ELSE lock[n].expiry

\* A former holder after its expiry: the lock still names it, the expiry it
\* was granted has passed, one lock is live under another caller, and the
\* last call was refused.
C28_Witness ==
    \E n, m \in Partitions, h1, h2 \in Callers :
        /\ h1 /= h2 /\ n /= m
        /\ ~ok
        /\ lock[n].holder = h1 /\ lock[n].expiry <= now
        /\ granted[n][h1] = lock[n].expiry
        /\ lock[m].holder = h2 /\ now < lock[m].expiry

\* ------------------------------------------------------ transition (SpecQueue)
PostingStates == {"PENDING", "CLAIMED", "APPLIED", "SKIPPED"}

\* C15 (StateConflict): in every reachable Store, a transition of a record
\* whose current state is not fromState fails and leaves the whole Store,
\* that record's state, owner and timestamps included, as it was; a
\* transition of a record whose state is fromState succeeds, puts that record
\* in toState and changes no other record.
C15_StateConflict ==
    \A k \in Keys, fromState \in PostingStates, toState \in PostingStates :
        LET r == transition(store, k, fromState, toState, 1, now)
        IN IF \E i \in 1..Len(store) : store[i].key = k /\ store[i].state = fromState
           THEN /\ r.ok
                /\ Len(r.store) = Len(store)
                /\ \A i \in 1..Len(store) :
                      IF store[i].key = k THEN r.store[i].state = toState
                      ELSE r.store[i] = store[i]
           ELSE ~r.ok /\ r.store = store

\* A Store after transitions, holding a claimed record with its owner and
\* claim time next to a skipped one: a second claim of either conflicts.
C15_Witness ==
    \E i, j \in 1..Len(store) :
        /\ store[i].state = "CLAIMED" /\ store[i].owner = 1
        /\ store[j].state = "SKIPPED"
        /\ now > 0

\* ------------------------------------------- idempotent insertion (SpecQueue)
\* The same candidate submitted now and again by the next search run.
Once(c) == submit(store, dedup, c, now)

Twice(c) == submit(Once(c).store, Once(c).dedup, c, now + SearchInterval)

\* C16 as stated: the second submit of any candidate returns DUPLICATE.
C16_SecondIsDuplicate == \A c \in Candidates : Twice(c).res = "DUPLICATE"

\* C16 (Idempotent insertion): in every reachable state of the Store and
\* the Dedup Index, submitting a candidate a second time leaves both as the
\* first submit left them, the existing record's score, state and timestamps
\* included; the second submit returns DUPLICATE unless the first was
\* rejected for a below-floor score, and then it is rejected again.
C16_IdempotentInsertion ==
    \A c \in Candidates :
        /\ Twice(c).store = Once(c).store
        /\ Twice(c).dedup = Once(c).dedup
        /\ Twice(c).res = IF Once(c).res = "REJECTED" THEN "REJECTED" ELSE "DUPLICATE"

\* A second submit answered DUPLICATE in a later search run, the record of
\* the first still in the Store with its discovery time.
C16_Witness ==
    /\ res = "DUPLICATE"
    /\ now = SearchInterval
    /\ \E i \in 1..Len(store) : store[i].ts = 0 /\ store[i].state = "PENDING"

\* ------------------------------------------------- canonical keys (SpecKey)
\* A listing URL is a path and the names of its query parameters in order;
\* as text, the first parameter follows "?" and each later one "&".
ParamNames == {"trk", "utm_source", "gh_jid"}

Urls == [path : {1, 2}, query : UNION {[1..n -> ParamNames] : n \in 0..MaxQuery}]

Render(u) == [i \in 1..Len(u.query) |-> <<IF i = 1 THEN "?" ELSE "&", u.query[i]>>]

\* The parameters the scraper deletes, each with the separator before it.
StrippedParams == {"refId", "trackingId", "trk", "currentJobId", "position", "eBP"}

canonicalKey(u) ==
    [path |-> u.path,
     query |-> SelectSeq(Render(u), LAMBDA tok : tok[2] \notin StrippedParams)]

\* Company+title as text over a small alphabet, lowercased and with runs of
\* whitespace collapsed.
Names == UNION {[1..n -> {"A", "a", " "}] : n \in 1..MaxName}

lower(ch) == IF ch = "A" THEN "a" ELSE ch

RECURSIVE collapse(_)
collapse(s) ==
    IF Len(s) <= 1 THEN s
    ELSE IF s[1] = " " /\ s[2] = " " THEN collapse(Tail(s))
    ELSE <<s[1]>> \o collapse(Tail(s))

normalize(s) == collapse([i \in 1..Len(s) |-> lower(s[i])])

\* check-dedup with a URL, a company and a title, then add-to-queue: a known
\* URL key or a known company+title is a duplicate.
submitListing(q, u, name) ==
    IF \E i \in 1..Len(q) : q[i].key = canonicalKey(u) \/ q[i].ident = normalize(name)
    THEN [res |-> "DUPLICATE", store |-> q]
    ELSE [res |-> "INSERTED",
          store |-> Append(q, [url |-> u, name |-> name,
                               key |-> canonicalKey(u), ident |-> normalize(name)])]

SubmitListing(u, name) ==
    /\ Len(store) < MaxListings
    /\ LET s == submitListing(store, u, name)
       IN res' = s.res /\ store' = s.store
    /\ UNCHANGED <<now, lock, lockVars, dedup, prod, runVars>>

NextKey == \E u \in Urls, name \in Names : SubmitListing(u, name)

SpecKey == InitLock /\ [][NextKey]_vars

\* Tracking parameters as the specification names them.
TrackingParams == StrippedParams \cup {"utm_source"}

SameButTracking(u, v) ==
    /\ u.path = v.path
    /\ SelectSeq(u.query, LAMBDA p : p \notin TrackingParams)
         = SelectSeq(v.query, LAMBDA p : p \notin TrackingParams)

\* C17 (Key normalization): a URL that differs from a stored listing's URL
\* only in tracking query parameters has that listing's canonical key, and a
\* listing with the same lowercased, whitespace-collapsed company+title as a
\* stored one is answered DUPLICATE.
C17_KeyNormalization ==
    \A i \in 1..Len(store) :
        /\ \A u \in Urls :
              SameButTracking(u, store[i].url) => canonicalKey(u) = store[i].key
        /\ \A u \in Urls, name \in Names :
              normalize(name) = store[i].ident
                  => submitListing(store, u, name).res = "DUPLICATE"

\* ---------------------------------------------------- blocked runs (pipeline)
\* The submission results in which the run was blocked: validation that
\* still fails after its correction attempts, and a verification challenge
\* the run could not pass.
BlockedResults == {"BLOCKED", "CAPTCHA"}

\* C18 (BLOCKED): a run that ends blocked leaves its posting in the Store in
\* state PENDING; the posting is not removed and not marked SKIPPED or
\* APPLIED.
C18_BlockedStaysPending ==
    [][\A r \in RunIds, result \in BlockedResults :
          Finish(r, result) =>
              \E i \in 1..Len(store') :
                  store'[i].key = runs[r].target /\ store'[i].state = "PENDING"]_vars

\* ------------------------------------------ priority within a partition
\* The records a step claims: CLAIMED after it, and not CLAIMED by the same
\* owner before it.
NewlyClaimed ==
    {i \in 1..Len(store') :
        /\ store'[i].state = "CLAIMED"
        /\ ~\E j \in 1..Len(store) :
               /\ store[j].key = store'[i].key
               /\ store[j].state = "CLAIMED"
               /\ store[j].owner = store'[i].owner}

C19_ClaimStep ==
    \A i \in NewlyClaimed, j \in 1..Len(store') :
        store'[j].part = store'[i].part /\ store'[j].state = "PENDING"
            => Precedes(store'[i], store'[j])

OverlapSpawn(P) ==
    /\ nextRun <= MaxRuns
    /\ ~isHeld(lock[P], now)
    /\ listActionable(store, P, 1) /= <<>>
    /\ runs' = [runs EXCEPT ![nextRun] =
                  [pc |-> "starting", part |-> P, target |-> 0, start |-> now]]
    /\ nextRun' = nextRun + 1
    /\ UNCHANGED <<now, lock, lockVars, store, dedup, prodVars, reverted>>

\* A session that goes on to claim a job whether or not it got the lock.
SubagentLockProceeds(r) ==
    /\ runs[r].pc = "starting"
    /\ LET P == runs[r].part
           a == tryAcquire(lock[P], r, LockTtl, now)
           top == listActionable(store, P, 1)
       IN IF top /= <<>>
          THEN /\ lock' = [lock EXCEPT ![P] = a.lock]
               /\ store' = transition(store, top[1].key, "PENDING", "CLAIMED", r, now).store
               /\ runs' = [runs EXCEPT ![r].pc = "preflight", ![r].target = top[1].key]
          ELSE /\ runs' = [runs EXCEPT ![r] = EndedRun("done")]
               /\ UNCHANGED <<lock, store>>
    /\ UNCHANGED <<now, lockVars, dedup, prodVars, nextRun, reverted>>

\* The session acquires the lock of its ATS type and picks the top job; a
\* session that is refused the lock, or finds no job, ends at once.
SubagentLock(r) ==
    /\ runs[r].pc = "starting"
    /\ LET P == runs[r].part
           a == tryAcquire(lock[P], r, LockTtl, now)
           top == listActionable(store, P, 1)
       IN IF a.ok /\ top /= <<>>
          THEN /\ lock' = [lock EXCEPT ![P] = a.lock]
               /\ store' = transition(store, top[1].key, "PENDING", "CLAIMED", r, now).store
               /\ runs' = [runs EXCEPT ![r].pc = "preflight", ![r].target = top[1].key]
          ELSE /\ runs' = [runs EXCEPT ![r] = EndedRun("done")]
               /\ UNCHANGED <<lock, store>>
    /\ UNCHANGED <<now, lockVars, dedup, prodVars, nextRun, reverted>>

NextOverlap ==
    \/ \E k \in Keys : Submit(k, salaryOf(k))
    \/ \E P \in Partitions : OverlapSpawn(P)
    \/ \E r \in RunIds : SubagentLock(r)
    \/ \E r \in RunIds, alive \in BOOLEAN : Preflight(r, alive)
    \/ \E r \in RunIds, result \in SubmitResults : Finish(r, result)

SpecOverlap == InitLock /\ [][NextOverlap]_vars

Started(r) == r.pc \in {"starting", "preflight", "submitting"}

C20_LockStep ==
    \A r \in RunIds :
        runs[r].pc = "starting" /\ runs'[r].pc /= "starting" =>
            LET P == runs[r].part
            IN IF isHeld(lock[P], now)
               THEN /\ runs'[r].pc = "done"
                    /\ store' = store /\ lock' = lock /\ nextRun' = nextRun
                    /\ \E w \in RunIds \ {r} :
                          Live(runs[w]) /\ runs[w].part = P /\ lock[P].holder = w
               ELSE listActionable(store, P, 1) /= <<>>
                        => runs'[r].pc = "preflight" /\ lock'[P].holder = r

C20_OneWinner ==
    \A r1, r2 \in RunIds :
        r1 /= r2 /\ Live(runs[r1]) /\ Live(runs[r2]) => runs[r1].part /= runs[r2].part

KeptUnchanged ==
    \A i \in 1..Len(store') : \E j \in 1..Len(store) : store[j] = store'[i]

C21_AbortStep ==
    \/ /\ runs' = runs /\ nextRun' = nextRun
       /\ lock' = lock
       /\ KeptUnchanged
    \/ ~\E deadKeys \in DeadLinks, down \in Unreachable : TickAbort(deadKeys, down)

C21_LiveHoldsLock ==
    \A r \in RunIds :
        Live(runs[r]) =>
            lock[runs[r].part].holder = r /\ now < lock[runs[r].part].expiry

C22_BudgetForcesDeferred ==
    [][\A r \in RunIds : Live(runs[r]) /\ now' > now => Live(runs'[r])]_vars

C23_InfraStep ==
    \A r \in RunIds :
        Finish(r, "INFRA") =>
            /\ runs'[r].pc = "done"
            /\ lock'[runs[r].part] = FreeLock
            /\ dedup' = dedup
            /\ Len(store') = Len(store)
            /\ \A i \in 1..Len(store) :
                  IF store[i].key = runs[r].target
                  THEN store'[i] = [store[i] EXCEPT !.state = "PENDING", !.owner = 0,
                                                   !.claimedAt = 0]
                  ELSE store'[i] = store[i]

AllowedChange(from, to) ==
    \/ from = to
    \/ from = "PENDING" /\ to = "CLAIMED"
    \/ from = "CLAIMED" /\ to \in {"APPLIED", "SKIPPED", "PENDING"}

Removed == {j \in 1..Len(store) : \A i \in 1..Len(store') : store'[i].key /= store[j].key}

OwnPreflight(x) ==
    /\ x.state = "CLAIMED"
    /\ runs[x.owner].pc = "preflight" /\ runs[x.owner].target = x.key

Bound(r) == {i \in 1..Len(store) : store[i].key = runs[r].target}

\* C26 (No double binding): in every reachable state a live run is bound to
\* one posting that is in the Store, carries the run's own partition tag and
\* is CLAIMED with that run as owner; so no posting is bound to two live runs
\* and a claimed posting is not handed to a second run.
C26_NoDoubleBinding ==
    /\ \A r \in RunIds :
          Live(runs[r]) =>
              /\ Cardinality(Bound(r)) = 1
              /\ \A i \in Bound(r) :
                    /\ store[i].part = runs[r].part
                    /\ store[i].state = "CLAIMED" /\ store[i].owner = r
    /\ \A r1, r2 \in RunIds :
          r1 /= r2 /\ Live(runs[r1]) /\ Live(runs[r2]) => runs[r1].target /= runs[r2].target

\* Two runs at work at once, each on a posting of its own partition, with a
\* third posting left PENDING beside the claimed one of its partition.
C26_Witness ==
    \E r1, r2 \in RunIds :
        /\ r1 /= r2 /\ Live(runs[r1]) /\ Live(runs[r2])
        /\ runs[r1].pc = "submitting"
        /\ \E i \in 1..Len(store) :
              store[i].state = "PENDING" /\ store[i].part = runs[r2].part

\* --------------------------------------------------- late workers (SpecLate)
\* The Store under workers that outlive their claims: a worker claims a
\* posting, time passes without limit on the worker, abandoned claims are
\* reverted and claimed again, and a worker writes its outcome whenever it
\* gets there.
LateClaim(a, k) ==
    /\ runs[a].pc = "none"
    /\ LET c == transition(store, k, "PENDING", "CLAIMED", a, now)
       IN /\ c.ok
          /\ store' = c.store
          /\ runs' = [runs EXCEPT ![a] = [pc |-> "submitting", part |-> PartOf(k),
                                          target |-> k, start |-> now]]
    /\ UNCHANGED <<now, lock, lockVars, dedup, prodVars, nextRun, reverted>>

LateRevert ==
    /\ staleKeys(store, now) /= {}
    /\ store' = revertStale(store, now)
    /\ reverted' = staleKeys(store, now)
    /\ UNCHANGED <<now, lock, lockVars, dedup, prodVars, runs, nextRun>>

\* A transition that also compares the owner with the actor.
transitionByOwner(q, k, fromState, toState, actor, t) ==
    IF \E i \in 1..Len(q) : q[i].key = k /\ q[i].state = fromState /\ q[i].owner = actor
    THEN transition(q, k, fromState, toState, actor, t)
    ELSE [ok |-> FALSE, store |-> q]

LateFinish(a) ==
    /\ runs[a].pc = "submitting"
    /\ LET c == transition(store, runs[a].target, "CLAIMED", "APPLIED", a, now)
       IN /\ ok' = c.ok
          /\ store' = c.store
          /\ dedup' = IF c.ok THEN record(dedup, runs[a].target, "applied") ELSE dedup
    /\ runs' = [runs EXCEPT ![a] = EndedRun("done")]
    /\ UNCHANGED <<now, lock, granted, prodVars, nextRun, reverted>>

LateAdvance ==
    /\ now < MaxTicks * TickInterval
    /\ now' = now + TickInterval
    /\ UNCHANGED <<lock, lockVars, store, dedup, prodVars, runVars>>

NextLate ==
    \/ \E k \in Keys : Submit(k, salaryOf(k))
    \/ \E a \in RunIds, k \in Keys : LateClaim(a, k)
    \/ LateRevert
    \/ \E a \in RunIds : LateFinish(a)
    \/ LateAdvance

SpecLate == InitLock /\ [][NextLate]_vars

\* The worker's posting as the Store has it when the worker writes.
OwnRecord(a) == RecordOf(store, runs[a].target)

AppliedKeys(q) == {q[i].key : i \in {j \in 1..Len(q) : q[j].state = "APPLIED"}}

\* Every posting that is APPLIED is APPLIED after the step, with the Dedup
\* Index still saying so.
C29_AppliedStep ==
    /\ AppliedKeys(store) \subseteq AppliedKeys(store')
    /\ \A k \in AppliedKeys(store) : dedup'[k] = dedup[k]

\* No live worker is bound to an APPLIED posting.
C29_NotHandedOut ==
    \A r \in RunIds : Live(runs[r]) => runs[r].target \notin AppliedKeys(store)

\* C29 (APPLIED is absorbing): under every order of submit, tick, dead-link
\* cleanup, stale-claim revert, worker steps and time passing, a posting that
\* is APPLIED stays in the Store as APPLIED with its Dedup entry, and no live
\* worker is ever bound to it.
C29_AppliedAbsorbing == [][C29_AppliedStep]_vars /\ []C29_NotHandedOut

\* An APPLIED posting survived: a later worker of the same partition is live
\* on another posting, and the posting's resubmission was turned away.
C29_Witness ==
    \E i, j \in 1..Len(store) :
        /\ store[i].state = "APPLIED" /\ dedup[store[i].key] = "applied"
        /\ store[j].state = "CLAIMED" /\ store[j].part = store[i].part
        /\ Live(runs[store[j].owner])
        /\ res = "DUPLICATE"

\* ------------------------------------------------------ form filler (SpecFill)
\* form-filler.js on a page of native fields. Here store is the page, a
\* sequence of fields; res is what the last run reported for each field; ok
\* says that the filler has run on the page as it is.
FieldKinds == {"text", "textarea", "date"}
FieldLabels == {"full name", "github", "start date", "essay", "referral code"}
FieldValues == {"", " ", "typed", "Howard"}
Fields == [kind : FieldKinds, label : FieldLabels, value : FieldValues]

startDateISO == "start-date-iso"
NoMatch == "no-match"

\* String.prototype.trim on the values of the model: only the value made of
\* whitespace changes.
trim(v) == IF v = " " THEN "" ELSE v

\* FIELD_MATCHERS: the profile value of the first matcher whose pattern
\* fits the label; PROFILE.github is the empty string.
matcherValue(label) ==
    CASE label = "full name" -> "Howard"
      [] label = "github" -> ""
      [] label = "start date" -> "Immediately"
      [] OTHER -> NoMatch

isCustomQuestion(label) == label = "essay"

startPattern(label) == label = "start date"

fillTextField(f) ==
    LET value == matcherValue(f.label)
    IN IF value = NoMatch THEN [matched |-> FALSE, field |-> f, reports |-> {}]
       ELSE IF f.value /= "" /\ trim(f.value) /= "" /\ f.value /= value
       THEN [matched |-> TRUE, field |-> f, reports |-> {"skipped"}]
       ELSE IF f.value = value
       THEN [matched |-> TRUE, field |-> f, reports |-> {"skipped"}]
       ELSE IF value = ""
       THEN [matched |-> TRUE, field |-> f, reports |-> {"skipped"}]
       ELSE [matched |-> TRUE, field |-> [f EXCEPT !.value = value],
             reports |-> {"filled"}]

\* The text path of fillAllNativeFields after the check for a value.
fillEmptyField(f) ==
    LET t == fillTextField(f)
        again == fillTextField(t.field)
    IN IF isCustomQuestion(f.label)
       THEN IF f.kind = "textarea" THEN [field |-> f, reports |-> {"customQuestions"}]
            ELSE IF t.matched THEN [field |-> t.field, reports |-> t.reports]
            ELSE [field |-> f, reports |-> {"customQuestions"}]
       ELSE IF f.kind = "textarea"
       THEN IF t.matched
            THEN [field |-> again.field, reports |-> t.reports \cup again.reports]
            ELSE [field |-> f, reports |-> {"customQuestions"}]
       ELSE IF t.matched THEN [field |-> t.field, reports |-> t.reports]
       ELSE [field |-> f, reports |-> {"skipped"}]

\* Faulty filler: the check for a value the field already holds is left out.
fillNativeFieldNoSkip(f) ==
    IF f.kind = "date" /\ startPattern(f.label)
    THEN [field |-> [f EXCEPT !.value = startDateISO], reports |-> {"filled"}]
    ELSE fillEmptyField(f)

\* One text input, textarea or date input in fillAllNativeFields' loop.
fillNativeField(f) ==
    IF f.kind = "date" /\ startPattern(f.label)
    THEN [field |-> [f EXCEPT !.value = startDateISO], reports |-> {"filled"}]
    ELSE IF f.value /= "" /\ trim(f.value) /= ""
    THEN [field |-> f, reports |-> {"skipped"}]
    ELSE fillEmptyField(f)

PageField(f) ==
    /\ Len(store) < MaxFields
    /\ store' = Append(store, f)
    /\ ok' = FALSE
    /\ UNCHANGED <<now, lock, granted, dedup, prodVars, runVars>>

FillerRun ==
    /\ store /= <<>>
    /\ store' = [i \in 1..Len(store) |-> fillNativeField(store[i]).field]
    /\ res' = [i \in 1..Len(store) |-> fillNativeField(store[i]).reports]
    /\ ok' = TRUE
    /\ UNCHANGED <<now, lock, granted, dedup, prod, runVars>>

NextFill ==
    \/ \E f \in Fields : PageField(f)
    \/ FillerRun

SpecFill == InitLock /\ [][NextFill]_vars

TextLike(f) == f.kind \in {"text", "textarea"}

C30_FilledStep ==
    FillerRun =>
        \A i \in 1..Len(store) :
            TextLike(store[i]) /\ trim(store[i].value) /= ""
                => store'[i].value = store[i].value /\ "skipped" \in res'[i]

\* A second run on the page changes no value.
C30_SecondRunStep == FillerRun /\ ok => store' = store

====
